---- MODULE Spec2Model ----
(***************************************************************************)
(* SRP (Secure Remote Password) handshake of srp/src/algo.rs.              *)
(*                                                                         *)
(* The group arithmetic is modelled over the integers with a small         *)
(* modulus, bytes are digits of base ByteBase, and the SHA-256 digest is   *)
(* a DigestLen-byte rolling hash: the algebra of the handshake (what is    *)
(* added, multiplied, subtracted, reduced and hashed, and in which order)  *)
(* is that of the source.                                                  *)
(***************************************************************************)
EXTENDS Integers, Sequences, FiniteSets, TLC

\* ------------------------------------------------------------------ sizes
\* The modulus: stands for the 1536-bit prime N_hex of SRP::new.
N == 11
\* SRP::new: g = 2, k = 3.
g == 2
k == 3
\* A byte takes the values 0 .. ByteBase-1.
ByteBase == 16
\* Bytes in a digest.
DigestLen == 2
\* Bytes in a salt (take(128) in the source).
SaltLen == 2
\* Number of distinct salts the random source may produce.
NumSalts == 2
\* Number of handshake attempts that may run interleaved.
NumAttempts == 2

Attempts == 1 .. NumAttempts
\* The attempt of the sequential specification.
Solo == {1}

\* Passwords offered to registration and to the client.
Passwords == { <<1, 2>>, <<3>> }

\* The value of an absent handshake, credential or result.
None == [none |-> TRUE]

VARIABLES
    srp,      \* the shared parameters: [N, g, k]
    cred,     \* cred[s]: the credential record registered for attempt s
    client,   \* client[s]: the ClientHandshake of attempt s
    server,   \* server[s]: the ServerHandshake of attempt s
    cres,     \* cres[s]: what the client's last compute_secret computed
    sres      \* sres[s]: what the server's last compute_secret computed

vars == <<srp, cred, client, server, cres, sres>>

\* ------------------------------------------------------------- BigNum
Abs(x) == IF x < 0 THEN -x ELSE x

RECURSIVE IntPow(_, _)
IntPow(b, e) == IF e = 0 THEN 1 ELSE b * IntPow(b, e - 1)

RECURSIVE ToDigits(_)
ToDigits(n) ==
    IF n < ByteBase THEN <<n>>
    ELSE Append(ToDigits(n \div ByteBase), n % ByteBase)

\* BigNumTrait::to_bytes_be: the magnitude, big-endian, minimal width.
to_bytes_be(x) == ToDigits(Abs(x))

RECURSIVE FromDigits(_, _, _)
FromDigits(bytes, i, acc) ==
    IF i > Len(bytes) THEN acc
    ELSE FromDigits(bytes, i + 1, acc * ByteBase + bytes[i])

\* BigNumTrait::from_bytes_be: the big-endian value of a byte sequence.
from_bytes_be(bytes) == FromDigits(bytes, 1, 0)

serialize(x) == to_bytes_be(x)

deserialize(bytes) == from_bytes_be(bytes)

\* Square-and-multiply on a base in [0, m).
RECURSIVE ModPow(_, _, _)
ModPow(b, e, m) ==
    IF e = 0 THEN 1 % m
    ELSE LET h == ModPow((b * b) % m, e \div 2, m)
         IN  IF e % 2 = 1 THEN (b * h) % m ELSE h

\* BigNumTrait::mod_exp on a non-negative base.
mod_exp(base, e, m) == ModPow(base % m, e, m)

\* BigNumTrait::mod_exp on any base.  For a base below zero the result
\* depends on how the implementation takes remainders: reducing the base
\* into [0, m) first gives the residue; a remainder that keeps the sign of
\* the dividend gives the residue of the magnitude, negative for an odd
\* exponent.
ModExpOutcomes(base, e, m) ==
    IF base >= 0 THEN { mod_exp(base, e, m) }
    ELSE LET mag == ModPow(Abs(base) % m, e, m)
         IN  { mod_exp(base, e, m), IF e % 2 = 1 THEN -mag ELSE mag }

\* ------------------------------------------------------------ Hash, MAC
DigestSpace == IntPow(ByteBase, DigestLen)

RECURSIVE HashFold(_, _, _)
HashFold(buf, i, h) ==
    IF i > Len(buf) THEN h
    ELSE HashFold(buf, i + 1, (h * 31 + buf[i] + 1) % DigestSpace)

RECURSIVE FixedWidth(_, _)
FixedWidth(n, w) ==
    IF w = 0 THEN <<>>
    ELSE Append(FixedWidth(n \div ByteBase, w - 1), n % ByteBase)

\* Sha256::digest: a digest of DigestLen bytes, a function of the bytes
\* and of their order.
Sha256Digest(buf) == FixedWidth(HashFold(buf, 1, 7), DigestLen)

\* mac::hmac_sha256(key, message).
hmac_sha256(key, msg) == Sha256Digest(key \o Sha256Digest(key \o msg))

\* ------------------------------------------------------ derivations
compute_u_swapped(A, B) == deserialize(Sha256Digest(serialize(B) \o serialize(A)))

compute_u(A, B) == deserialize(Sha256Digest(serialize(A) \o serialize(B)))

compute_x_swapped(salt, password) == deserialize(Sha256Digest(password \o salt))

compute_x(salt, password) == deserialize(Sha256Digest(salt \o password))

\* ------------------------------------------------------------- SRP
SRP_new == [N |-> N, g |-> g, k |-> k]

\* The salts the random source may produce: SaltLen bytes each.
SaltOf(c) == [i \in 1 .. SaltLen |-> (c * i + c) % ByteBase]

Salts == { SaltOf(c) : c \in 1 .. NumSalts }

\* SRP::password_to_secret with the salt the random source produced.  The
\* record keeps the password it was registered from beside (salt, verifier).
password_to_secret(p, password, salt) ==
    [password |-> password, salt |-> salt,
     v |-> mod_exp(p.g, compute_x(salt, password), p.N)]

\* ------------------------------------------------------ HandshakeState
HandshakeState_new_offbyone(p, exponent) ==
    [exponent |-> exponent, power |-> mod_exp(p.g, exponent + 1, p.N)]

\* HandshakeState::new with the exponent gen_below(N) produced.
HandshakeState_new(p, exponent) ==
    [exponent |-> exponent, power |-> mod_exp(p.g, exponent, p.N)]

\* ----------------------------------------------------- ClientHandshake
ClientHandshake_new(p, password, exponent) ==
    [state |-> HandshakeState_new(p, exponent), password |-> password]

ClientHandshake_A(ch) == ch.state.power

ClientSecret_plain_exponent(p, ch, B, salt) ==
    LET u    == compute_u(ch.state.power, B)
        x    == compute_x(salt, ch.password)
        base == B - p.k * mod_exp(p.g, x, p.N)
        e    == ch.state.exponent + u + x
    IN  { [B |-> B, salt |-> salt, u |-> u, x |-> x, base |-> base, S |-> S,
           K |-> Sha256Digest(serialize(S)),
           auth |-> hmac_sha256(Sha256Digest(serialize(S)), salt)]
          : S \in ModExpOutcomes(base, e, p.N) }

\* ClientHandshake::compute_secret(B, salt): the computations it may make.
\* Each records the inputs, the intermediate u, x, base, S, K and the
\* authenticator returned.
ClientHandshake_compute_secret(p, ch, B, salt) ==
    LET u    == compute_u(ch.state.power, B)
        x    == compute_x(salt, ch.password)
        base == B - p.k * mod_exp(p.g, x, p.N)
        e    == ch.state.exponent + u * x
    IN  { [B |-> B, salt |-> salt, u |-> u, x |-> x, base |-> base, S |-> S,
           K |-> Sha256Digest(serialize(S)),
           auth |-> hmac_sha256(Sha256Digest(serialize(S)), salt)]
          : S \in ModExpOutcomes(base, e, p.N) }

\* ----------------------------------------------------- ServerHandshake
ServerHandshake_new(p, salt, v, exponent) ==
    LET state == HandshakeState_new(p, exponent)
    IN  [state |-> state, B |-> state.power + p.k * v, salt |-> salt, v |-> v]

ServerHandshake_B(sh) == sh.B

ServerSecret_swapped_u(p, sh, A) ==
    LET u == compute_u(sh.B, A)
        S == mod_exp(A * mod_exp(sh.v, u, p.N), sh.state.exponent, p.N)
        K == Sha256Digest(serialize(S))
    IN  [A |-> A, u |-> u, S |-> S, K |-> K, auth |-> hmac_sha256(K, sh.salt)]

ServerSecret_sum(p, sh, A) ==
    LET u == compute_u(A, sh.B)
        S == mod_exp(A + mod_exp(sh.v, u, p.N), sh.state.exponent, p.N)
        K == Sha256Digest(serialize(S))
    IN  [A |-> A, u |-> u, S |-> S, K |-> K, auth |-> hmac_sha256(K, sh.salt)]

\* ServerHandshake::compute_secret(A).
ServerHandshake_compute_secret(p, sh, A) ==
    LET u == compute_u(A, sh.B)
        S == mod_exp(A * mod_exp(sh.v, u, p.N), sh.state.exponent, p.N)
        K == Sha256Digest(serialize(S))
    IN  [A |-> A, u |-> u, S |-> S, K |-> K, auth |-> hmac_sha256(K, sh.salt)]

\* ------------------------------------------------------------ ownership
Shared(f, s, val) == [j \in DOMAIN f |-> val]

\* A constructor returns a value of its own: what attempt s builds or
\* computes is held by attempt s alone.
Own(f, s, val) == [f EXCEPT ![s] = val]

\* ------------------------------------------------------------- inputs
\* gen_below(N): every exponent in [0, N).
Exponents == 0 .. (N - 1)

\* Public values a peer may send instead of the honest one.
ReceivedB == {0, 1, N}
ReceivedA == {0, N, 2 * N}

\* The narrower inputs of the interleaved specification: one password, one
\* salt, two exponents, and each side receives what the other side sent.
ConcPasswords == { <<1, 2>> }
ConcSalts == { SaltOf(1) }
ConcExponents == {1, N - 1}
ConcReceived == {}

\* ------------------------------------------------------------- actions
Init ==
    /\ srp = SRP_new
    /\ cred = [s \in Attempts |-> None]
    /\ client = [s \in Attempts |-> None]
    /\ server = [s \in Attempts |-> None]
    /\ cres = [s \in Attempts |-> None]
    /\ sres = [s \in Attempts |-> None]

\* Registration of the account of attempt s.
Register(s, Pws, Slts) ==
    /\ cred[s] = None
    /\ \E password \in Pws, salt \in Slts :
         cred' = Own(cred, s, password_to_secret(srp, password, salt))
    /\ UNCHANGED <<srp, client, server, cres, sres>>

\* ClientHandshake::new(srp, password).
ClientNew(s, Pws, Exps) ==
    /\ client[s] = None
    /\ \E password \in Pws, a \in Exps :
         client' = Own(client, s, ClientHandshake_new(srp, password, a))
    /\ UNCHANGED <<srp, cred, server, cres, sres>>

\* ServerHandshake::new(srp, salt, v) for the registered account.
ServerNew(s, Exps) ==
    /\ cred[s] # None
    /\ server[s] = None
    /\ \E b \in Exps :
         server' = Own(server, s,
                       ServerHandshake_new(srp, cred[s].salt, cred[s].v, b))
    /\ UNCHANGED <<srp, cred, client, cres, sres>>

\* client.compute_secret(B, salt): B is what server.B() returned, or
\* another value put on the wire; salt is the account's.
ClientComputeSecret(s, Recv) ==
    /\ client[s] # None
    /\ cred[s] # None
    /\ \E B \in (IF server[s] # None THEN {ServerHandshake_B(server[s])} ELSE {})
                   \cup Recv :
         \E r \in ClientHandshake_compute_secret(srp, client[s], B, cred[s].salt) :
            cres' = Own(cres, s, r)
    /\ UNCHANGED <<srp, cred, client, server, sres>>

\* server.compute_secret(A): A is what client.A() returned, or another
\* value put on the wire.
ServerComputeSecret(s, Recv) ==
    /\ server[s] # None
    /\ \E A \in (IF client[s] # None THEN {ClientHandshake_A(client[s])} ELSE {})
                   \cup Recv :
         sres' = Own(sres, s, ServerHandshake_compute_secret(srp, server[s], A))
    /\ UNCHANGED <<srp, cred, client, server, cres>>

Next ==
    \E s \in Solo :
        \/ Register(s, Passwords, Salts)
        \/ ClientNew(s, Passwords, Exponents)
        \/ ServerNew(s, Exponents)
        \/ ClientComputeSecret(s, ReceivedB)
        \/ ServerComputeSecret(s, ReceivedA)

Spec == Init /\ [][Next]_vars

NextConc ==
    \E s \in Attempts :
        \/ Register(s, ConcPasswords, ConcSalts)
        \/ ClientNew(s, ConcPasswords, ConcExponents)
        \/ ServerNew(s, ConcExponents)
        \/ ClientComputeSecret(s, ConcReceived)
        \/ ServerComputeSecret(s, ConcReceived)

SpecConc == Init /\ [][NextConc]_vars

\* ------------------------------------------------------------- claims
\* What attempt s holds.
AttemptState(s) == <<cred[s], client[s], server[s], cres[s], sres[s]>>

\* Both sides of attempt s have computed their secret, the client with the
\* password the account was registered from, each with the public value
\* and the salt the other side holds.
HonestRun(s) ==
    /\ cred[s] # None /\ client[s] # None /\ server[s] # None
    /\ cres[s] # None /\ sres[s] # None
    /\ cres[s].B = ServerHandshake_B(server[s])
    /\ cres[s].salt = cred[s].salt
    /\ sres[s].A = ClientHandshake_A(client[s])

\* C1: when the client holds the registered password and each side
\* receives the other's public value, the client's and the server's S, K
\* and authenticator are equal, for all exponents a, b in [0, N).
C1_Agreement ==
    \A s \in Attempts :
        (HonestRun(s) /\ client[s].password = cred[s].password)
        => /\ cres[s].S = sres[s].S
           /\ cres[s].K = sres[s].K
           /\ cres[s].auth = sres[s].auth

\* An agreeing run in which the server's B was not below N and the secret
\* is not one of the trivial residues.
C1_Witness ==
    \E s \in Attempts :
        /\ HonestRun(s) /\ client[s].password = cred[s].password
        /\ server[s].B >= srp.N
        /\ client[s].state.exponent > 1 /\ server[s].state.exponent > 1
        /\ cres[s].u * cres[s].x > 0
        /\ sres[s].S > 1

\* C2: compute_secret never returns an authenticator computed from a
\* received public value that is 0 modulo N.
C2_DegenerateRejected ==
    \A s \in Attempts :
        /\ cres[s] # None => cres[s].B % srp.N # 0
        /\ sres[s] # None => sres[s].A % srp.N # 0

\* C3: for a received B in [0, N) the base the client exponentiates,
\* B - k * (g^x mod N), lies in [0, N).
C3_BaseReduced ==
    \A s \in Attempts :
        (cres[s] # None /\ cres[s].B \in 0 .. (srp.N - 1))
        => cres[s].base \in 0 .. (srp.N - 1)

\* C4: the server's B equals (k*v + g^b) mod N and lies in [0, N).
C4_BReduced ==
    \A s \in Attempts :
        server[s] # None
        => /\ ServerHandshake_B(server[s])
                = (srp.k * server[s].v
                   + mod_exp(srp.g, server[s].state.exponent, srp.N)) % srp.N
           /\ ServerHandshake_B(server[s]) \in 0 .. (srp.N - 1)

\* C5: a credential record holds a salt of SaltLen bytes and the verifier
\* g^x mod N in [0, N), x the big-endian value of the digest of salt
\* followed by password; a client given that password and salt derives
\* the same x.
C5_Registration ==
    \A s \in Attempts :
        cred[s] # None
        => LET x == deserialize(Sha256Digest(cred[s].salt \o cred[s].password))
           IN  /\ Len(cred[s].salt) = SaltLen
               /\ cred[s].v = mod_exp(srp.g, x, srp.N)
               /\ cred[s].v \in 0 .. (srp.N - 1)
               /\ (cres[s] # None /\ client[s].password = cred[s].password)
                  => cres[s].x = x

\* A registered account with a verifier above 1 whose client, given the
\* registered password, derived x.
C5_Witness ==
    \E s \in Attempts :
        /\ cred[s] # None /\ cres[s] # None
        /\ client[s].password = cred[s].password
        /\ cres[s].x > 1
        /\ cred[s].v > 1

\* C7: u is the big-endian value of the digest of A's bytes followed by
\* B's bytes, on the client (A its own power, B received) and on the
\* server (A received, B its own), so equal (A, B) give equal u; x is the
\* value of the digest of salt followed by password.
C7_Derivations ==
    \A s \in Attempts :
        /\ cres[s] # None
           => /\ cres[s].u = deserialize(Sha256Digest(
                    serialize(ClientHandshake_A(client[s])) \o serialize(cres[s].B)))
              /\ cres[s].x = deserialize(Sha256Digest(
                    cres[s].salt \o client[s].password))
        /\ sres[s] # None
           => sres[s].u = deserialize(Sha256Digest(
                    serialize(sres[s].A) \o serialize(ServerHandshake_B(server[s]))))
        /\ HonestRun(s) => cres[s].u = sres[s].u

\* Both sides hashed the same pair, and hashing it in the other order
\* would have given another u.
C7_Witness ==
    \E s \in Attempts :
        /\ HonestRun(s)
        /\ cres[s].u = sres[s].u
        /\ cres[s].u # deserialize(Sha256Digest(
                serialize(cres[s].B) \o serialize(sres[s].A)))

\* C8: a step changes neither N, g, k nor the state of more than one
\* attempt, and the authenticators an attempt holds are those its own
\* handshake computes from its own inputs under the parameters as built.
C8_Isolation ==
    /\ [][ /\ srp' = srp
           /\ \A i, j \in Attempts :
                (i # j /\ AttemptState(i)' # AttemptState(i))
                => AttemptState(j)' = AttemptState(j) ]_vars
    /\ [](\A s \in Attempts :
            /\ cres[s] # None
               => cres[s] \in ClientHandshake_compute_secret(
                                 SRP_new, client[s], cres[s].B, cred[s].salt)
            /\ sres[s] # None
               => sres[s] = ServerHandshake_compute_secret(
                                 SRP_new, server[s], sres[s].A))

\* Two attempts with different exponents have both completed.
C8_Witness ==
    \E i, j \in Attempts :
        /\ i # j
        /\ HonestRun(i) /\ HonestRun(j)
        /\ client[i].state.exponent # client[j].state.exponent
        /\ server[i].state.exponent # server[j].state.exponent
        /\ cres[i].auth # cres[j].auth

\* C9: a handshake's exponent lies in [0, N), its power is g^exponent
\* mod N, A() returns the power, and no step changes a handshake once it
\* is built.
C9_HandshakeState ==
    /\ [](\A s \in Attempts :
            /\ client[s] # None
               => /\ client[s].state.exponent \in 0 .. (srp.N - 1)
                  /\ client[s].state.power
                       = mod_exp(srp.g, client[s].state.exponent, srp.N)
                  /\ ClientHandshake_A(client[s]) = client[s].state.power
            /\ server[s] # None
               => /\ server[s].state.exponent \in 0 .. (srp.N - 1)
                  /\ server[s].state.power
                       = mod_exp(srp.g, server[s].state.exponent, srp.N))
    /\ [][ \A s \in Attempts :
             /\ client[s] # None => client'[s] = client[s]
             /\ server[s] # None => server'[s] = server[s] ]_vars

\* Both handshakes have been used: each side called compute_secret.
C9_Witness ==
    \E s \in Attempts :
        /\ HonestRun(s)
        /\ client[s].state.exponent > 1
        /\ server[s].state.exponent > 1
        /\ client[s].state.power # server[s].state.power

\* C10: for a received A that is a multiple of N and a server exponent
\* above 0, S is 0 and the authenticator is the MAC of the salt under the
\* digest of 0: a function of the salt alone.
C10_DegenerateA ==
    \A s \in Attempts :
        (sres[s] # None /\ sres[s].A % srp.N = 0 /\ server[s].state.exponent > 0)
        => /\ sres[s].S = 0
           /\ sres[s].K = Sha256Digest(serialize(0))
           /\ sres[s].auth = hmac_sha256(Sha256Digest(serialize(0)), server[s].salt)

\* The server computed a secret from A = 2N for a verifier above 1.
C10_Witness ==
    \E s \in Attempts :
        /\ sres[s] # None /\ sres[s].A = 2 * srp.N
        /\ server[s].state.exponent > 0
        /\ server[s].v > 1

====
